---- MODULE Spec2Model ----
(***************************************************************************)
(* Verification model of kabocha-node:                                     *)
(*   - pallets/parachain-staking/src/conviction.rs  (Conviction datatype)  *)
(*   - pallets/template/src/lib.rs                  (template pallet and   *)
(*     the interface documentation of the planned staking dispatchables)   *)
(*                                                                         *)
(* Three specifications share the module:                                  *)
(*   ConvictionSpec : every pure function of conviction.rs applied to      *)
(*                    every input of a bounded balance type;               *)
(*   Spec           : the template pallet's storage and dispatchables;     *)
(*   StakingSpec    : the candidate pool / delegation graph operations that*)
(*                    lib.rs documents but does not implement, modelled    *)
(*                    from the specification text.                         *)
(***************************************************************************)
EXTENDS Integers, Naturals, Sequences, FiniteSets, TLC

VARIABLES
    \* ---- conviction.rs: the call under observation ----
    op,           \* name of the function applied last
    conviction,   \* its Conviction argument (self)
    other,        \* second Conviction argument (comparison only)
    capital,      \* its capital argument
    byte,         \* its u8 argument
    ret,          \* its return value
    \* ---- template pallet ----
    Something,    \* StorageValue<_, u32>: NoValue or the stored u32
    events,       \* events deposited through frame_system
    call,         \* the dispatchable called last, with origin and argument
    pre,          \* Something as it was before that call
    result,       \* the DispatchResult of that call
    lastPut,      \* history: argument of the last successful do_something
    incs,         \* history: successful cause_error calls since then
    \* ---- staking operations ----
    candidates,   \* candidate table: account id -> CandidateState or Absent
    delegations,  \* delegation table: <<delegator, candidate>> -> amount (0 = no edge)
    round,        \* current round
    requestedAt,  \* history: round at which init_leave_candidates succeeded
    scall         \* history: the call, if it was execute_leave_candidates

convVars == <<op, conviction, other, capital, byte, ret>>
tmplVars == <<Something, events, call, pre, result, lastPut, incs>>
stakVars == <<candidates, delegations, round, requestedAt, scall>>
vars == <<op, conviction, other, capital, byte, ret,
          Something, events, call, pre, result, lastPut, incs,
          candidates, delegations, round, requestedAt, scall>>

(***************************************************************************)
(* Bounds                                                                  *)
(***************************************************************************)
\* width in bits of the balance type B that Conviction::stake is instantiated with
BalanceBits == 6
\* width in bits standing for the u32 of Something
WordBits == 3
\* events kept before the event log is full
MaxEvents == 2
\* last round the round counter reaches
MaxRound == 3
\* free balance every account starts with in the balance ledger
Endowment == 2

RECURSIVE Pow2(_)
Pow2(n) == IF n = 0 THEN 1 ELSE 2 * Pow2(n - 1)

(***************************************************************************)
(* conviction.rs                                                           *)
(***************************************************************************)
U8Max == 255
U8 == 0..U8Max

\* B::max_value() of the balance type
MaxBalance == Pow2(BalanceBits) - 1
Balance == 0..MaxBalance

\* enum Conviction, in declaration order
ConvictionVariants ==
    <<"None", "Locked1x", "Locked2x", "Locked3x", "Locked4x", "Locked5x", "Locked6x">>
Conviction == {ConvictionVariants[k] : k \in 1..Len(ConvictionVariants)}

\* #[derive(Ord, PartialOrd)]: variants compare by their position in the declaration
Discriminant(c) == CHOOSE k \in 1..Len(ConvictionVariants) : ConvictionVariants[k] = c

cmp(c1, c2) ==
    IF Discriminant(c1) < Discriminant(c2) THEN "Less"
    ELSE IF Discriminant(c1) = Discriminant(c2) THEN "Equal"
    ELSE "Greater"

\* impl Default for Conviction
default == "None"

\* impl Bounded for Conviction
min_value == "None"
max_value == "Locked6x"

Ok(v) == [tag |-> "Ok", val |-> v]
Err(e) == [tag |-> "Err", val |-> e]
\* the unit value (), the Error type of TryFrom<u8>
Unit == "()"

Some(v) == [some |-> TRUE, v |-> v]
None == [some |-> FALSE, v |-> 0]
unwrap_or_else(o, d) == IF o.some THEN o.v ELSE d

\* from with Locked6x given the code of Locked5x
from_dup(c) ==
    CASE c = "None" -> 0
      [] c = "Locked1x" -> 1
      [] c = "Locked2x" -> 2
      [] c = "Locked3x" -> 3
      [] c = "Locked4x" -> 4
      [] c = "Locked5x" -> 5
      [] c = "Locked6x" -> 5

\* impl From<Conviction> for u8
from(c) ==
    CASE c = "None" -> 0
      [] c = "Locked1x" -> 1
      [] c = "Locked2x" -> 2
      [] c = "Locked3x" -> 3
      [] c = "Locked4x" -> 4
      [] c = "Locked5x" -> 5
      [] c = "Locked6x" -> 6

\* try_from accepting one code too many
try_from_lenient(i) ==
    CASE i = 0 -> Ok("None")
      [] i = 1 -> Ok("Locked1x")
      [] i = 2 -> Ok("Locked2x")
      [] i = 3 -> Ok("Locked3x")
      [] i = 4 -> Ok("Locked4x")
      [] i = 5 -> Ok("Locked5x")
      [] i = 6 -> Ok("Locked6x")
      [] i = 7 -> Ok("Locked6x")
      [] OTHER -> Err(Unit)

\* impl TryFrom<u8> for Conviction
try_from(i) ==
    CASE i = 0 -> Ok("None")
      [] i = 1 -> Ok("Locked1x")
      [] i = 2 -> Ok("Locked2x")
      [] i = 3 -> Ok("Locked3x")
      [] i = 4 -> Ok("Locked4x")
      [] i = 5 -> Ok("Locked5x")
      [] i = 6 -> Ok("Locked6x")
      [] OTHER -> Err(Unit)

\* lock_periods growing by one per level instead of doubling
lock_periods_linear(c) ==
    CASE c = "None" -> 0
      [] c = "Locked1x" -> 1
      [] c = "Locked2x" -> 2
      [] c = "Locked3x" -> 3
      [] c = "Locked4x" -> 4
      [] c = "Locked5x" -> 5
      [] c = "Locked6x" -> 6

\* Conviction::lock_periods
lock_periods(c) ==
    CASE c = "None" -> 0
      [] c = "Locked1x" -> 1
      [] c = "Locked2x" -> 2
      [] c = "Locked3x" -> 4
      [] c = "Locked4x" -> 8
      [] c = "Locked5x" -> 16
      [] c = "Locked6x" -> 32

\* multiplication that wraps modulo the width of B
wrapping_mul(a, b) == Some((a * b) % (MaxBalance + 1))

\* CheckedMul on B: None when the product does not fit
checked_mul(a, b) == IF a * b > MaxBalance THEN None ELSE Some(a * b)

\* CheckedDiv on B: None when the divisor is zero
checked_div(a, b) == IF b = 0 THEN None ELSE Some(a \div b)

\* stake multiplying without the overflow check
stake_unchecked(c, cap) ==
    LET s == IF c = "None"
             THEN unwrap_or_else(checked_div(cap, 10), 0)
             ELSE cap * from(c)
    IN [stake |-> s, capital |-> cap]

\* stake falling back to zero, as the None arm does, when the product overflows
stake_zero_fallback(c, cap) ==
    LET s == IF c = "None"
             THEN unwrap_or_else(checked_div(cap, 10), 0)
             ELSE unwrap_or_else(checked_mul(cap, from(c)), 0)
    IN [stake |-> s, capital |-> cap]

\* Conviction::stake
stake(c, cap) ==
    LET s == IF c = "None"
             THEN unwrap_or_else(checked_div(cap, 10), 0)
             ELSE unwrap_or_else(checked_mul(cap, from(c)), MaxBalance)
    IN [stake |-> s, capital |-> cap]


(***************************************************************************)
(* ConvictionSpec: each action applies one function of conviction.rs to    *)
(* inputs drawn from the whole (bounded) input type.                       *)
(***************************************************************************)
ConvInputs(c, o, cap, i) ==
    /\ conviction' = c
    /\ other' = o
    /\ capital' = cap
    /\ byte' = i

CallStake ==
    \E c \in Conviction, cap \in Balance :
        /\ op' = "stake"
        /\ ConvInputs(c, default, cap, 0)
        /\ ret' = stake(c, cap)
        /\ UNCHANGED <<tmplVars, stakVars>>

CallLockPeriods ==
    \E c \in Conviction :
        /\ op' = "lock_periods"
        /\ ConvInputs(c, default, 0, 0)
        /\ ret' = lock_periods(c)
        /\ UNCHANGED <<tmplVars, stakVars>>

CallFrom ==
    \E c \in Conviction :
        /\ op' = "from"
        /\ ConvInputs(c, default, 0, 0)
        /\ ret' = from(c)
        /\ UNCHANGED <<tmplVars, stakVars>>

CallTryFrom ==
    \E i \in U8 :
        /\ op' = "try_from"
        /\ ConvInputs(default, default, 0, i)
        /\ ret' = try_from(i)
        /\ UNCHANGED <<tmplVars, stakVars>>

CallCmp ==
    \E c1 \in Conviction, c2 \in Conviction :
        /\ op' = "cmp"
        /\ ConvInputs(c1, c2, 0, 0)
        /\ ret' = cmp(c1, c2)
        /\ UNCHANGED <<tmplVars, stakVars>>

(***************************************************************************)
(* pallets/template/src/lib.rs: the template pallet                        *)
(***************************************************************************)
\* u32::MAX of the (scaled) word
U32Max == Pow2(WordBits) - 1
U32 == 0..U32Max

AccountId == {"alice", "bob"}

\* frame_system origins
Signed(who) == [kind |-> "Signed", who |-> who]
Origin == {Signed(a) : a \in AccountId} \cup
          {[kind |-> "Root", who |-> "-"], [kind |-> "None", who |-> "-"]}

\* frame_system::ensure_signed
ensure_signed(origin) ==
    IF origin.kind = "Signed" THEN Ok(origin.who) ELSE Err("BadOrigin")

\* Event::SomethingStored(u32, T::AccountId)
SomethingStored(something, who) ==
    [event |-> "SomethingStored", something |-> something, who |-> who]

\* addition that wraps modulo the width of the word
wrapping_add(a, b) == Some((a + b) % (U32Max + 1))

\* u32::checked_add
checked_add(a, b) == IF a + b > U32Max THEN None ELSE Some(a + b)

\* what every dispatch records about itself
Dispatched(name, origin, arg, res) ==
    /\ call' = [name |-> name, origin |-> origin, arg |-> arg]
    /\ pre' = [Something |-> Something, events |-> events]
    /\ result' = res

\* do_something without the origin check
do_something_unsigned(origin, something) ==
    /\ Len(events) < MaxEvents
    /\ Something' = Some(something)
    /\ events' = Append(events, SomethingStored(something, origin.who))
    /\ Dispatched("do_something", origin, something, Ok(Unit))

\* Pallet::do_something
do_something(origin, something) ==
    LET who == ensure_signed(origin) IN
    IF who.tag = "Err"
    THEN /\ Dispatched("do_something", origin, something, Err(who.val))
         /\ UNCHANGED <<Something, events>>
    ELSE /\ Len(events) < MaxEvents
         /\ Something' = Some(something)
         /\ events' = Append(events, SomethingStored(something, who.val))
         /\ Dispatched("do_something", origin, something, Ok(Unit))

\* Pallet::cause_error
cause_error(origin) ==
    LET who == ensure_signed(origin) IN
    IF who.tag = "Err"
    THEN /\ Dispatched("cause_error", origin, 0, Err(who.val))
         /\ UNCHANGED <<Something, events>>
    ELSE IF ~Something.some
    THEN /\ Dispatched("cause_error", origin, 0, Err("NoneValue"))
         /\ UNCHANGED <<Something, events>>
    ELSE LET new == checked_add(Something.v, 1) IN
         IF ~new.some
         THEN /\ Dispatched("cause_error", origin, 0, Err("StorageOverflow"))
              /\ UNCHANGED <<Something, events>>
         ELSE /\ Something' = Some(new.v)
              /\ Dispatched("cause_error", origin, 0, Ok(Unit))
              /\ UNCHANGED events

\* arguments passed to do_something: both ends of the u32 range
SomethingArgs == {0, 1, U32Max - 1, U32Max}

\* The history variables are kept from what a caller observes: the origin it
\* used, the argument it passed and the result it got back.
DoSomething ==
    /\ \E origin \in Origin, something \in SomethingArgs : do_something(origin, something)
    /\ lastPut' = IF call'.origin.kind = "Signed" /\ result'.tag = "Ok"
                  THEN Some(call'.arg) ELSE lastPut
    /\ incs' = IF call'.origin.kind = "Signed" /\ result'.tag = "Ok" THEN 0 ELSE incs
    /\ UNCHANGED <<convVars, stakVars>>

CauseError ==
    /\ \E origin \in Origin : cause_error(origin)
    /\ lastPut' = lastPut
    /\ incs' = IF result'.tag = "Ok" THEN incs + 1 ELSE incs
    /\ UNCHANGED <<convVars, stakVars>>

(***************************************************************************)
(* Staking operations.  lib.rs lists them as the pallet's dispatchable     *)
(* functions (lines 56-101) but implements none of them; they are modelled *)
(* from the specification (sections 3, 4.3, 4.4, 4.5).  Exits are cleaned  *)
(* up by execute_leave_candidates, as lib.rs lines 70-72 say.  The lock    *)
(* table of the stake ledger and the selected set are not part of this     *)
(* model; the balance ledger is reduced to free_balance.                   *)
(***************************************************************************)
Collators == {"carol", "dave"}
Delegators == {"erin", "frank"}

MinCandidateStake == 1
MaxCollatorCandidateStake == 2
MinDelegatorStake == 1
MaxDelegationsPerDelegator == 2
ExitQueueDelay == 2

\* amounts a caller may pass
Amounts == 0..(Endowment + 1)

RECURSIVE SumOf(_, _)
SumOf(f, S) ==
    IF S = {} THEN 0
    ELSE LET x == CHOOSE y \in S : TRUE IN f[x] + SumOf(f, S \ {x})

\* delegation edges to candidate c / of delegator d
EdgesTo(c) == {e \in DOMAIN delegations : e[2] = c}
EdgesOf(d) == {e \in DOMAIN delegations : e[1] = d}

\* funds an account has staked, and what the ledger can still lock for it
Staked(a) ==
    IF a \in DOMAIN candidates THEN candidates[a].self_stake
    ELSE SumOf(delegations, EdgesOf(a))
free_balance(a) == Endowment - Staked(a)

Remove(f, S) == [x \in (DOMAIN f) \ S |-> f[x]]

CandidateState(self, total, status, exit) ==
    [self_stake |-> self, total_stake |-> total, status |-> status, exit_round |-> exit]

\* exit allowed from the next round on
exit_round_next(current) == current + 1

\* the round from which an exit requested now may be executed
exit_round_of(current) == current + ExitQueueDelay

\* execute_leave_candidates records its call: the candidate's entry before the
\* call and the result; after any other call the record is NoExit
NoExit ==
    [name |-> "other", target |-> "-", round |-> 0, leaving |-> FALSE,
     exit_round |-> 0, requested |-> 0, result |-> Ok(Unit)]

Called(name, who, target, res) ==
    scall' = IF name = "execute_leave_candidates"
             THEN [name |-> name, target |-> target, round |-> round,
                   leaving |-> (target \in DOMAIN candidates
                                /\ candidates[target].status = "Leaving"),
                   exit_round |-> IF target \in DOMAIN candidates
                                  THEN candidates[target].exit_round ELSE 0,
                   requested |-> requestedAt[target],
                   result |-> res]
             ELSE NoExit

Failed(name, who, target, error) ==
    /\ Called(name, who, target, Err(error))
    /\ UNCHANGED <<candidates, delegations, round, requestedAt>>

\* add delta (possibly negative) to a candidate's total_stake
AdjustTotal(tbl, c, delta) ==
    [tbl EXCEPT ![c].total_stake = @ + delta]

join_candidates(id, amount) ==
    IF id \in DOMAIN candidates THEN Failed("join_candidates", id, id, "CandidateExists")
    ELSE IF amount < MinCandidateStake THEN Failed("join_candidates", id, id, "InsufficientStake")
    ELSE IF amount > MaxCollatorCandidateStake THEN Failed("join_candidates", id, id, "StakeTooHigh")
    ELSE IF amount > free_balance(id) THEN Failed("join_candidates", id, id, "InsufficientBalance")
    ELSE /\ candidates' = candidates @@ (id :> CandidateState(amount, amount, "Active", 0))
         /\ Called("join_candidates", id, id, Ok(Unit))
         /\ UNCHANGED <<delegations, round, requestedAt>>

candidate_stake_more(id, delta) ==
    IF id \notin DOMAIN candidates THEN Failed("candidate_stake_more", id, id, "NotCandidate")
    ELSE IF candidates[id].total_stake + delta > MaxBalance
    THEN Failed("candidate_stake_more", id, id, "ArithmeticOverflow")
    ELSE IF candidates[id].self_stake + delta > MaxCollatorCandidateStake
    THEN Failed("candidate_stake_more", id, id, "StakeTooHigh")
    ELSE IF delta > free_balance(id) THEN Failed("candidate_stake_more", id, id, "InsufficientBalance")
    ELSE /\ candidates' = AdjustTotal([candidates EXCEPT ![id].self_stake = @ + delta], id, delta)
         /\ Called("candidate_stake_more", id, id, Ok(Unit))
         /\ UNCHANGED <<delegations, round, requestedAt>>

candidate_stake_less(id, delta) ==
    IF id \notin DOMAIN candidates THEN Failed("candidate_stake_less", id, id, "NotCandidate")
    ELSE IF delta > candidates[id].self_stake
    THEN Failed("candidate_stake_less", id, id, "ArithmeticOverflow")
    ELSE IF candidates[id].self_stake - delta < MinCandidateStake
    THEN Failed("candidate_stake_less", id, id, "InsufficientStake")
    ELSE /\ candidates' = AdjustTotal([candidates EXCEPT ![id].self_stake = @ - delta], id, 0 - delta)
         /\ Called("candidate_stake_less", id, id, Ok(Unit))
         /\ UNCHANGED <<delegations, round, requestedAt>>

init_leave_candidates(id) ==
    IF id \notin DOMAIN candidates \/ candidates[id].status = "Leaving"
    THEN Failed("init_leave_candidates", id, id, "NotCandidate")
    ELSE /\ candidates' = [candidates EXCEPT ![id].status = "Leaving",
                                             ![id].exit_round = exit_round_of(round)]
         /\ requestedAt' = [requestedAt EXCEPT ![id] = round]
         /\ Called("init_leave_candidates", id, id, Ok(Unit))
         /\ UNCHANGED <<delegations, round>>

execute_leave_candidates(id) ==
    IF id \notin DOMAIN candidates \/ candidates[id].status # "Leaving"
    THEN Failed("execute_leave_candidates", id, id, "NotCandidate")
    ELSE IF round < candidates[id].exit_round
    THEN Failed("execute_leave_candidates", id, id, "ExitNotMatured")
    ELSE /\ candidates' = Remove(candidates, {id})
         /\ delegations' = Remove(delegations, EdgesTo(id))
         /\ requestedAt' = [requestedAt EXCEPT ![id] = 0]
         /\ Called("execute_leave_candidates", id, id, Ok(Unit))
         /\ UNCHANGED round

\* validation shared by join_delegators and delegate_another_candidate
DelegateError(d, c, amount) ==
    IF c \notin DOMAIN candidates THEN "CandidateNotFound"
    ELSE IF <<d, c>> \in DOMAIN delegations THEN "AlreadyDelegating"
    ELSE IF amount < MinDelegatorStake THEN "InsufficientDelegatorStake"
    ELSE IF Cardinality(EdgesOf(d)) >= MaxDelegationsPerDelegator THEN "TooManyDelegations"
    ELSE IF candidates[c].total_stake + amount > MaxBalance THEN "ArithmeticOverflow"
    ELSE IF amount > free_balance(d) THEN "InsufficientBalance"
    ELSE "none"

AddEdge(name, d, c, amount) ==
    /\ delegations' = delegations @@ (<<d, c>> :> amount)
    /\ candidates' = AdjustTotal(candidates, c, amount)
    /\ Called(name, d, c, Ok(Unit))
    /\ UNCHANGED <<round, requestedAt>>

join_delegators(d, c, amount) ==
    IF EdgesOf(d) # {} THEN Failed("join_delegators", d, c, "AlreadyDelegating")
    ELSE IF DelegateError(d, c, amount) # "none"
    THEN Failed("join_delegators", d, c, DelegateError(d, c, amount))
    ELSE AddEdge("join_delegators", d, c, amount)

delegate_another_candidate(d, c, amount) ==
    IF EdgesOf(d) = {} THEN Failed("delegate_another_candidate", d, c, "DelegatorNotFound")
    ELSE IF DelegateError(d, c, amount) # "none"
    THEN Failed("delegate_another_candidate", d, c, DelegateError(d, c, amount))
    ELSE AddEdge("delegate_another_candidate", d, c, amount)

delegator_stake_more(d, c, delta) ==
    IF <<d, c>> \notin DOMAIN delegations
    THEN Failed("delegator_stake_more", d, c, "DelegationNotFound")
    ELSE IF candidates[c].total_stake + delta > MaxBalance
    THEN Failed("delegator_stake_more", d, c, "ArithmeticOverflow")
    ELSE IF delta > free_balance(d) THEN Failed("delegator_stake_more", d, c, "InsufficientBalance")
    ELSE /\ delegations' = [delegations EXCEPT ![<<d, c>>] = @ + delta]
         /\ candidates' = AdjustTotal(candidates, c, delta)
         /\ Called("delegator_stake_more", d, c, Ok(Unit))
         /\ UNCHANGED <<round, requestedAt>>

delegator_stake_less(d, c, delta) ==
    IF <<d, c>> \notin DOMAIN delegations
    THEN Failed("delegator_stake_less", d, c, "DelegationNotFound")
    ELSE IF delta > delegations[<<d, c>>]
    THEN Failed("delegator_stake_less", d, c, "ArithmeticOverflow")
    ELSE IF delegations[<<d, c>>] - delta < MinDelegatorStake
    THEN Failed("delegator_stake_less", d, c, "StakeBelowMinimum")
    ELSE /\ delegations' = [delegations EXCEPT ![<<d, c>>] = @ - delta]
         /\ candidates' = AdjustTotal(candidates, c, 0 - delta)
         /\ Called("delegator_stake_less", d, c, Ok(Unit))
         /\ UNCHANGED <<round, requestedAt>>

revoke_delegation(d, c) ==
    IF <<d, c>> \notin DOMAIN delegations
    THEN Failed("revoke_delegation", d, c, "DelegationNotFound")
    ELSE /\ delegations' = Remove(delegations, {<<d, c>>})
         /\ candidates' = AdjustTotal(candidates, c, 0 - delegations[<<d, c>>])
         /\ Called("revoke_delegation", d, c, Ok(Unit))
         /\ UNCHANGED <<round, requestedAt>>

\* leave_delegators that removes the edges and leaves the totals as they were
leave_delegators_keep_totals(d) ==
    IF EdgesOf(d) = {} THEN Failed("leave_delegators", d, d, "DelegatorNotFound")
    ELSE /\ delegations' = Remove(delegations, EdgesOf(d))
         /\ Called("leave_delegators", d, d, Ok(Unit))
         /\ UNCHANGED <<candidates, round, requestedAt>>

leave_delegators(d) ==
    IF EdgesOf(d) = {} THEN Failed("leave_delegators", d, d, "DelegatorNotFound")
    ELSE /\ delegations' = Remove(delegations, EdgesOf(d))
         /\ candidates' = [c \in DOMAIN candidates |->
                              IF <<d, c>> \in DOMAIN delegations
                              THEN [candidates[c] EXCEPT !.total_stake = @ - delegations[<<d, c>>]]
                              ELSE candidates[c]]
         /\ Called("leave_delegators", d, d, Ok(Unit))
         /\ UNCHANGED <<round, requestedAt>>

\* Round Controller: Round(n) --blocks elapse--> Round(n+1)
new_round ==
    /\ round < MaxRound
    /\ round' = round + 1
    /\ Called("new_round", "-", "-", Ok(Unit))
    /\ UNCHANGED <<candidates, delegations, requestedAt>>

JoinCandidates ==
    /\ \E id \in Collators, amount \in Amounts : join_candidates(id, amount)
    /\ UNCHANGED <<convVars, tmplVars>>
CandidateStakeMore ==
    /\ \E id \in Collators, delta \in Amounts \ {0} : candidate_stake_more(id, delta)
    /\ UNCHANGED <<convVars, tmplVars>>
CandidateStakeLess ==
    /\ \E id \in Collators, delta \in Amounts \ {0} : candidate_stake_less(id, delta)
    /\ UNCHANGED <<convVars, tmplVars>>
InitLeaveCandidates ==
    /\ \E id \in Collators : init_leave_candidates(id)
    /\ UNCHANGED <<convVars, tmplVars>>
ExecuteLeaveCandidates ==
    /\ \E id \in Collators : execute_leave_candidates(id)
    /\ UNCHANGED <<convVars, tmplVars>>
JoinDelegators ==
    /\ \E d \in Delegators, c \in Collators, amount \in Amounts : join_delegators(d, c, amount)
    /\ UNCHANGED <<convVars, tmplVars>>
DelegateAnotherCandidate ==
    /\ \E d \in Delegators, c \in Collators, amount \in Amounts :
           delegate_another_candidate(d, c, amount)
    /\ UNCHANGED <<convVars, tmplVars>>
DelegatorStakeMore ==
    /\ \E d \in Delegators, c \in Collators, delta \in Amounts \ {0} :
           delegator_stake_more(d, c, delta)
    /\ UNCHANGED <<convVars, tmplVars>>
DelegatorStakeLess ==
    /\ \E d \in Delegators, c \in Collators, delta \in Amounts \ {0} :
           delegator_stake_less(d, c, delta)
    /\ UNCHANGED <<convVars, tmplVars>>
RevokeDelegation ==
    /\ \E d \in Delegators, c \in Collators : revoke_delegation(d, c)
    /\ UNCHANGED <<convVars, tmplVars>>
LeaveDelegators ==
    /\ \E d \in Delegators : leave_delegators(d)
    /\ UNCHANGED <<convVars, tmplVars>>
NewRound ==
    /\ new_round
    /\ UNCHANGED <<convVars, tmplVars>>

(***************************************************************************)
(* Specifications                                                          *)
(***************************************************************************)
\* the parts of the state a specification does not use stay at these values
ConvIdle ==
    /\ op = "init" /\ conviction = default /\ other = default
    /\ capital = 0 /\ byte = 0 /\ ret = Unit
TmplIdle ==
    /\ Something = None /\ events = <<>>
    /\ call = [name |-> "init", origin |-> [kind |-> "None", who |-> "-"], arg |-> 0]
    /\ pre = [Something |-> None, events |-> <<>>]
    /\ result = Ok(Unit)
    /\ lastPut = None /\ incs = 0
StakIdle ==
    /\ candidates = <<>> /\ delegations = <<>> /\ round = 0
    /\ requestedAt = [c \in Collators |-> 0]
    /\ scall = NoExit

Init == ConvIdle /\ TmplIdle /\ StakIdle

\* the template pallet
Next == DoSomething \/ CauseError
Spec == Init /\ [][Next]_vars

\* the functions of conviction.rs
ConvictionNext == CallStake \/ CallLockPeriods \/ CallFrom \/ CallTryFrom \/ CallCmp
ConvictionSpec == Init /\ [][ConvictionNext]_vars

\* the staking operations
StakingNext ==
    \/ JoinCandidates \/ CandidateStakeMore \/ CandidateStakeLess
    \/ InitLeaveCandidates \/ ExecuteLeaveCandidates
    \/ JoinDelegators \/ DelegateAnotherCandidate
    \/ DelegatorStakeMore \/ DelegatorStakeLess
    \/ RevokeDelegation \/ LeaveDelegators
    \/ NewRound
StakingSpec == Init /\ [][StakingNext]_vars

(***************************************************************************)
(* Properties                                                              *)
(***************************************************************************)
\* the multiplier the documentation gives each locked level
Multiplier(c) ==
    CASE c = "Locked1x" -> 1
      [] c = "Locked2x" -> 2
      [] c = "Locked3x" -> 3
      [] c = "Locked4x" -> 4
      [] c = "Locked5x" -> 5
      [] c = "Locked6x" -> 6

\* C1: stake(cap).stake is floor(cap / 10) for None; for a locked level it is
\* cap times the level's multiplier when the product fits the balance type and
\* the type's maximum when it does not; it is never the product wrapped
\* modulo the type's width.
StakeValue ==
    op = "stake" =>
        IF conviction = "None"
        THEN ret.stake = capital \div 10
        ELSE IF capital * Multiplier(conviction) <= MaxBalance
        THEN ret.stake = capital * Multiplier(conviction)
        ELSE ret.stake = MaxBalance

StakeValueWitness ==
    /\ op = "stake"
    /\ conviction = "Locked6x"
    /\ capital * 6 > MaxBalance
    /\ (capital * 6) % (MaxBalance + 1) # MaxBalance
    /\ ret.stake = MaxBalance

\* C2: stake always returns a Follows value, for capital 0 and the maximum
\* too; its capital field is the argument unchanged and its stake field is a
\* value of the balance type.
StakeTotal ==
    op = "stake" =>
        /\ DOMAIN ret = {"stake", "capital"}
        /\ ret.capital = capital
        /\ ret.stake \in Balance

StakeTotalWitness ==
    /\ op = "stake"
    /\ capital = MaxBalance
    /\ conviction = "Locked2x"
    /\ ret.capital = MaxBalance
    /\ ret.stake <= MaxBalance

\* C3: lock_periods is 0, 1, 2, 4, 8, 16, 32 for None, Locked1x .. Locked6x:
\* none for None, one for Locked1x, and twice the level below for each level
\* above Locked1x.
LockPeriodsDoubling ==
    op = "lock_periods" =>
        LET k == Discriminant(conviction) IN
        /\ ret = <<0, 1, 2, 4, 8, 16, 32>>[k]
        /\ (k > 2 => ret = 2 * lock_periods(ConvictionVariants[k - 1]))

LockPeriodsWitness ==
    op = "lock_periods" /\ conviction = "Locked6x" /\ ret = 32

\* C4: Conviction and its u8 code round-trip: decoding the code of c gives
\* Ok(c); encoding the conviction decoded from a byte in 0..6 gives the byte
\* back; distinct convictions have distinct codes; decoding 7 fails.
CodeRoundTrip ==
    /\ (op = "from" => try_from(ret) = Ok(conviction))
    /\ (op = "try_from" /\ byte <= 6 => ret.tag = "Ok" /\ from(ret.val) = byte)
    /\ (op = "try_from" /\ byte = 7 => ret.tag = "Err")
    /\ (op = "cmp" /\ conviction # other => from(conviction) # from(other))

CodeRoundTripWitness ==
    op = "try_from" /\ byte = 6 /\ ret = Ok("Locked6x") /\ from(ret.val) = 6

\* C5 as stated: decoding a byte outside 0..6 fails with an InvalidConviction
\* error.
DecodeFailsInvalidConviction ==
    op = "try_from" /\ byte > 6 => ret = Err("InvalidConviction")

\* C5 as amended: decoding a byte outside 0..6 fails, and the error is the
\* unit value (), the only value of TryFrom's Error type.
DecodeFailsUnit ==
    op = "try_from" /\ byte > 6 => ret = Err(Unit)

DecodeFailsWitness ==
    op = "try_from" /\ byte = U8Max /\ ret.tag = "Err"

\* C10: the derived order of Conviction is the order of the u8 codes, None is
\* the minimum and the default, Locked6x the maximum, and for c1 <= c2
\* lock_periods(c1) <= lock_periods(c2) and, for every capital,
\* c1.stake(cap).stake <= c2.stake(cap).stake.
OrderMonotone ==
    op = "cmp" =>
        /\ (ret = "Less" <=> from(conviction) < from(other))
        /\ (ret = "Equal" <=> from(conviction) = from(other))
        /\ (ret = "Greater" <=> from(conviction) > from(other))
        /\ default = min_value
        /\ cmp(min_value, conviction) # "Greater"
        /\ cmp(conviction, max_value) # "Greater"
        /\ (ret # "Greater" =>
               /\ lock_periods(conviction) <= lock_periods(other)
               /\ \A cap \in Balance :
                      stake(conviction, cap).stake <= stake(other, cap).stake)

OrderMonotoneWitness ==
    /\ op = "cmp" /\ ret = "Less"
    /\ conviction = "Locked5x" /\ other = "Locked6x"
    /\ stake(conviction, MaxBalance).stake = MaxBalance
    /\ stake(other, MaxBalance).stake = MaxBalance

\* C8: a signed cause_error fails with NoneValue when Something was never set
\* and with StorageOverflow when Something is the u32 maximum, and leaves
\* Something as it was; otherwise it succeeds and Something is its old value
\* plus 1, never 0.
CauseErrorOutcome ==
    call.name = "cause_error" /\ call.origin.kind = "Signed" =>
        IF ~pre.Something.some
        THEN result = Err("NoneValue") /\ Something = pre.Something
        ELSE IF pre.Something.v = U32Max
        THEN result = Err("StorageOverflow") /\ Something = pre.Something
        ELSE /\ result = Ok(Unit)
             /\ Something = Some(pre.Something.v + 1)
             /\ Something.v # 0

CauseErrorWitness ==
    /\ call.name = "cause_error" /\ call.origin.kind = "Signed"
    /\ pre.Something = Some(U32Max)
    /\ result = Err("StorageOverflow")
    /\ Something = Some(U32Max)

SomethingTracksHistory ==
    /\ (Something.some <=> lastPut.some)
    /\ (lastPut.some => Something.v = lastPut.v + incs)
    /\ (call.name # "init" /\ call.origin.kind # "Signed" =>
            /\ result.tag = "Err"
            /\ Something = pre.Something
            /\ events = pre.events)

\* C9: Something is unset exactly while no signed do_something has succeeded;
\* once set it is never unset; its value is the argument of the last
\* successful do_something plus the number of successful cause_error calls
\* since; a call whose origin is not signed changes nothing.
SomethingHistory ==
    /\ []SomethingTracksHistory
    /\ [][Something.some => Something'.some]_vars

SomethingHistoryWitness ==
    /\ lastPut.some /\ incs >= 2
    /\ Something = Some(lastPut.v + incs)
    /\ call.origin.kind # "Signed"
    /\ result.tag = "Err"

\* C6: every candidate's total_stake is its self_stake plus the sum of the
\* delegation amounts recorded for it, after any sequence of the staking
\* operations.
TotalStakeIsSum ==
    \A c \in DOMAIN candidates :
        candidates[c].total_stake =
            candidates[c].self_stake + SumOf(delegations, EdgesTo(c))

TotalStakeWitness ==
    \E c \in DOMAIN candidates :
        /\ Cardinality(EdgesTo(c)) = 2
        /\ SumOf(delegations, EdgesTo(c)) >= 3
        /\ candidates[c].total_stake = candidates[c].self_stake + SumOf(delegations, EdgesTo(c))
        /\ candidates[c].status = "Leaving"

ExitCallOutcome ==
    scall.name = "execute_leave_candidates" /\ scall.leaving =>
        IF scall.round < scall.requested + ExitQueueDelay
        THEN /\ scall.result = Err("ExitNotMatured")
             /\ scall.target \in DOMAIN candidates
        ELSE /\ scall.result = Ok(Unit)
             /\ scall.target \notin DOMAIN candidates

ExitRemovalStep ==
    \A c \in DOMAIN candidates :
        c \notin DOMAIN candidates' =>
            /\ candidates[c].status = "Leaving"
            /\ round >= requestedAt[c] + ExitQueueDelay

====
